---- MODULE Spec2Model ----
(***************************************************************************)
(* Model of notebooks/databricks_notebooks/01_setup.py: a notebook that    *)
(* mounts blob storage, downloads and uncompresses the two KDD Cup 99      *)
(* archives, rewrites them with a row id for streaming, and registers the  *)
(* SparkSQL tables.  Every notebook statement that touches the platform is *)
(* one action; a statement that raises halts the run.                      *)
(***************************************************************************)
EXTENDS Integers, Sequences, FiniteSets, TLC

\* ---------------------------------------------------------------- bounds
MaxRows == 2        \* longest archive, in CSV lines
MaxParts == 2       \* most input partitions spark.read.csv splits a file into
MaxRuns == 2        \* times the notebook is run

\* ------------------------------------------------------ program constants
storage_mount_path == "/mnt/blob_storage"
wasbs_source == "wasbs://databricks@storage_account.blob.core.windows.net"
NumShards == 20
RowIdBits == 33

Datasets == {"labeled", "unlabeled"}

\* The two download_and_uncompress_gz call sites and what follows each.
data_url(ds) ==
  IF ds = "labeled"
    THEN "https://archive.ics.uci.edu/ml/machine-learning-databases/kddcup99-mld/kddcup.data.gz"
    ELSE "http://kdd.ics.uci.edu/databases/kddcup99/kddcup.testdata.unlabeled.gz"

IdPrefix(ds) == IF ds = "labeled" THEN "A" ELSE "B"

TempTable(ds) == IF ds = "labeled" THEN "kdd_temp" ELSE "kdd_unlabeled_temp"
FinalTable(ds) == IF ds = "labeled" THEN "kdd" ELSE "kdd_unlabeled"
TableNames == {"kdd_temp", "kdd", "kdd_unlabeled_temp", "kdd_unlabeled"}

kdd_temp_columns ==
  <<
    [name |-> "id", type |-> "STRING"],
    [name |-> "duration", type |-> "FLOAT"],
    [name |-> "protocol_type", type |-> "STRING"],
    [name |-> "service", type |-> "STRING"],
    [name |-> "flag", type |-> "STRING"],
    [name |-> "src_bytes", type |-> "FLOAT"],
    [name |-> "dst_bytes", type |-> "FLOAT"],
    [name |-> "land", type |-> "SHORT"],
    [name |-> "wrong_fragment", type |-> "FLOAT"],
    [name |-> "urgent", type |-> "FLOAT"],
    [name |-> "hot", type |-> "FLOAT"],
    [name |-> "num_failed_logins", type |-> "FLOAT"],
    [name |-> "logged_in", type |-> "SHORT"],
    [name |-> "num_compromised", type |-> "FLOAT"],
    [name |-> "root_shell", type |-> "FLOAT"],
    [name |-> "su_attempted", type |-> "FLOAT"],
    [name |-> "num_root", type |-> "FLOAT"],
    [name |-> "num_file_creations", type |-> "FLOAT"],
    [name |-> "num_shells", type |-> "FLOAT"],
    [name |-> "num_access_files", type |-> "FLOAT"],
    [name |-> "num_outbound_cmds", type |-> "FLOAT"],
    [name |-> "is_host_login", type |-> "SHORT"],
    [name |-> "is_guest_login", type |-> "SHORT"],
    [name |-> "count", type |-> "FLOAT"],
    [name |-> "srv_count", type |-> "FLOAT"],
    [name |-> "serror_rate", type |-> "FLOAT"],
    [name |-> "srv_serror_rate", type |-> "FLOAT"],
    [name |-> "rerror_rate", type |-> "FLOAT"],
    [name |-> "srv_rerror_rate", type |-> "FLOAT"],
    [name |-> "same_srv_rate", type |-> "FLOAT"],
    [name |-> "diff_srv_rate", type |-> "FLOAT"],
    [name |-> "srv_diff_host_rate", type |-> "FLOAT"],
    [name |-> "dst_host_count", type |-> "FLOAT"],
    [name |-> "dst_host_srv_count", type |-> "FLOAT"],
    [name |-> "dst_host_same_srv_rate", type |-> "FLOAT"],
    [name |-> "dst_host_diff_srv_rate", type |-> "FLOAT"],
    [name |-> "dst_host_same_src_port_rate", type |-> "FLOAT"],
    [name |-> "dst_host_srv_diff_host_rate", type |-> "FLOAT"],
    [name |-> "dst_host_serror_rate", type |-> "FLOAT"],
    [name |-> "dst_host_srv_serror_rate", type |-> "FLOAT"],
    [name |-> "dst_host_rerror_rate", type |-> "FLOAT"],
    [name |-> "dst_host_srv_rerror_rate", type |-> "FLOAT"],
    [name |-> "label", type |-> "STRING"]
  >>

kdd_unlabeled_temp_columns ==
  <<
    [name |-> "id", type |-> "STRING"],
    [name |-> "duration", type |-> "FLOAT"],
    [name |-> "protocol_type", type |-> "STRING"],
    [name |-> "service", type |-> "STRING"],
    [name |-> "flag", type |-> "STRING"],
    [name |-> "src_bytes", type |-> "FLOAT"],
    [name |-> "dst_bytes", type |-> "FLOAT"],
    [name |-> "land", type |-> "SHORT"],
    [name |-> "wrong_fragment", type |-> "FLOAT"],
    [name |-> "urgent", type |-> "FLOAT"],
    [name |-> "hot", type |-> "FLOAT"],
    [name |-> "num_failed_logins", type |-> "FLOAT"],
    [name |-> "logged_in", type |-> "SHORT"],
    [name |-> "num_compromised", type |-> "FLOAT"],
    [name |-> "root_shell", type |-> "FLOAT"],
    [name |-> "su_attempted", type |-> "FLOAT"],
    [name |-> "num_root", type |-> "FLOAT"],
    [name |-> "num_file_creations", type |-> "FLOAT"],
    [name |-> "num_shells", type |-> "FLOAT"],
    [name |-> "num_access_files", type |-> "FLOAT"],
    [name |-> "num_outbound_cmds", type |-> "FLOAT"],
    [name |-> "is_host_login", type |-> "SHORT"],
    [name |-> "is_guest_login", type |-> "SHORT"],
    [name |-> "count", type |-> "FLOAT"],
    [name |-> "srv_count", type |-> "FLOAT"],
    [name |-> "serror_rate", type |-> "FLOAT"],
    [name |-> "srv_serror_rate", type |-> "FLOAT"],
    [name |-> "rerror_rate", type |-> "FLOAT"],
    [name |-> "srv_rerror_rate", type |-> "FLOAT"],
    [name |-> "same_srv_rate", type |-> "FLOAT"],
    [name |-> "diff_srv_rate", type |-> "FLOAT"],
    [name |-> "srv_diff_host_rate", type |-> "FLOAT"],
    [name |-> "dst_host_count", type |-> "FLOAT"],
    [name |-> "dst_host_srv_count", type |-> "FLOAT"],
    [name |-> "dst_host_same_srv_rate", type |-> "FLOAT"],
    [name |-> "dst_host_diff_srv_rate", type |-> "FLOAT"],
    [name |-> "dst_host_same_src_port_rate", type |-> "FLOAT"],
    [name |-> "dst_host_srv_diff_host_rate", type |-> "FLOAT"],
    [name |-> "dst_host_serror_rate", type |-> "FLOAT"],
    [name |-> "dst_host_srv_serror_rate", type |-> "FLOAT"],
    [name |-> "dst_host_rerror_rate", type |-> "FLOAT"],
    [name |-> "dst_host_srv_rerror_rate", type |-> "FLOAT"]
  >>

TempColumns(ds) ==
  IF ds = "labeled" THEN kdd_temp_columns ELSE kdd_unlabeled_temp_columns

\* ------------------------------------------------------------- gzip files
\* A gzip file: the magic header, the compressed body (run-length coded
\* lines) and the trailer that ends the member.
NotGzip == [magic |-> FALSE, runs |-> <<>>, trailer |-> FALSE]

RECURSIVE Deflate(_)
Deflate(lines) ==
  IF lines = <<>> THEN <<>>
  ELSE LET rest == Deflate(Tail(lines))
       IN IF rest # <<>> /\ rest[1].line = Head(lines)
            THEN <<[line |-> Head(lines), count |-> rest[1].count + 1]>> \o Tail(rest)
            ELSE <<[line |-> Head(lines), count |-> 1]>> \o rest

RECURSIVE Repeat(_, _)
Repeat(line, n) == IF n = 0 THEN <<>> ELSE <<line>> \o Repeat(line, n - 1)

\* Inflate without the run lengths: one line for each run.
Inflate_IgnoreCount(runs) == [i \in 1..Len(runs) |-> runs[i].line]

RECURSIVE Inflate(_)
Inflate(runs) ==
  IF runs = <<>> THEN <<>>
  ELSE Repeat(runs[1].line, runs[1].count) \o Inflate(Tail(runs))

GzipOf(lines) == [magic |-> TRUE, runs |-> Deflate(lines), trailer |-> TRUE]

\* gzip.open(...).read() succeeds on a file with header and trailer.
IsGzip(gz) == gz.magic /\ gz.trailer

\* What the server sent when the connection dropped after k runs.
Truncated(gz, k) ==
  [magic |-> gz.magic, runs |-> SubSeq(gz.runs, 1, k), trailer |-> FALSE]

Prefix(s, k) == SubSeq(s, 1, k)

\* ------------------------------------------------------------ the datasets
\* A raw line of a dataset has the columns of its table except the id.
SampleValues(ds) == IF ds = "labeled" THEN {"0", "1"} ELSE {"0"}

RawLine(ds, x) ==
  [i \in 1..(Len(TempColumns(ds)) - 1) |->
     LET col == TempColumns(ds)[i + 1]
     IN IF col.type \in {"FLOAT", "SHORT"} THEN x
        ELSE IF col.name = "label" THEN "normal."
        ELSE "tcp"]

RawLines(ds) == {RawLine(ds, x) : x \in SampleValues(ds)}

SeqsUpTo(S, n) == UNION {[1..k -> S] : k \in 0..n}

Payloads(ds) == {GzipOf(lines) : lines \in SeqsUpTo(RawLines(ds), MaxRows)} \cup {NotGzip}

\* ------------------------------------------------- decimal string of a long
RECURSIVE NatDigits(_)
NatDigits(n) == IF n < 10 THEN <<n>> ELSE <<n % 10>> \o NatDigits(n \div 10)

RECURSIVE AddCarry(_, _)
AddCarry(d, c) ==
  IF d = <<>> THEN (IF c = 0 THEN <<>> ELSE NatDigits(c))
  ELSE LET s == Head(d) + c IN <<s % 10>> \o AddCarry(Tail(d), s \div 10)

RECURSIVE DoubleCarry(_, _)
DoubleCarry(d, c) ==
  IF d = <<>> THEN (IF c = 0 THEN <<>> ELSE <<c>>)
  ELSE LET s == 2 * Head(d) + c IN <<s % 10>> \o DoubleCarry(Tail(d), s \div 10)

RECURSIVE ShiftLeft(_, _)
ShiftLeft(d, k) == IF k = 0 THEN d ELSE ShiftLeft(DoubleCarry(d, 0), k - 1)

\* The id without the partition bits: the row number within the partition.
monotonically_increasing_id_RowOnly(partition, row) == NatDigits(row)

\* Digits, least significant first, of (partition << 33) + row number.
monotonically_increasing_id(partition, row) ==
  AddCarry(ShiftLeft(NatDigits(partition), RowIdBits), row)

DigitChar == <<"0", "1", "2", "3", "4", "5", "6", "7", "8", "9">>

RECURSIVE LongToString(_)
LongToString(d) ==
  IF d = <<>> THEN <<>> ELSE LongToString(Tail(d)) \o <<DigitChar[Head(d) + 1]>>

\* concat(lit('A'), monotonically_increasing_id())
IdColumn(ds, partition, row) ==
  <<IdPrefix(ds)>> \o LongToString(monotonically_increasing_id(partition, row))

\* -------------------------------------------------------- Stream Prep rows
Min(a, b) == IF a < b THEN a ELSE b

\* The split with the first line of every partition but the first one lost.
InputPartitions_OffByOne(lines, np) ==
  LET n == Len(lines)
      chunk == (n + np - 1) \div np
  IN [p \in 0..(np - 1) |->
        SubSeq(lines, Min(n, p * chunk) + (IF p = 0 THEN 1 ELSE 2),
               Min(n, (p + 1) * chunk))]

\* spark.read.csv splits the file into np contiguous partitions.
InputPartitions(lines, np) ==
  LET n == Len(lines)
      chunk == (n + np - 1) \div np
  IN [p \in 0..(np - 1) |->
        SubSeq(lines, Min(n, p * chunk) + 1, Min(n, (p + 1) * chunk))]

\* raw_df.columns: as many columns as the first line has fields.
Columns(lines) == IF lines = <<>> THEN 0 ELSE Len(lines[1])

\* withColumn('id', ...).select(['id'] + raw_df.columns), one partition.
AddId(ds, p, part, ncols) ==
  [j \in 1..Len(part) |-> <<IdColumn(ds, p, j - 1)>> \o SubSeq(part[j], 1, ncols)]

\* repartition(20) deals the rows of input partition p round-robin, from the
\* position after its start: the rows of p that land in shard s, in order.
RECURSIVE DealtTo(_, _, _, _)
DealtTo(rows, start, j, s) ==
  IF j > Len(rows) THEN <<>>
  ELSE (IF (start + j) % NumShards = s THEN <<rows[j]>> ELSE <<>>)
       \o DealtTo(rows, start, j + 1, s)

RECURSIVE ShardRows(_, _, _, _, _)
ShardRows(ds, parts, starts, p, s) ==
  IF p \notin DOMAIN parts THEN <<>>
  ELSE DealtTo(parts[p], starts[p], 1, s) \o ShardRows(ds, parts, starts, p + 1, s)

Repartition(ds, parts, starts) ==
  [s \in 0..(NumShards - 1) |-> ShardRows(ds, parts, starts, 0, s)]

\* df = raw_df.withColumn(...).select(...).repartition(20)
StreamingFrame(ds, lines, np, starts) ==
  LET parts == InputPartitions(lines, np)
      ncols == Columns(lines)
  IN Repartition(ds, [p \in DOMAIN parts |-> AddId(ds, p, parts[p], ncols)], starts)

\* --------------------------------------------------------- SparkSQL tables
Numerals == {"0", "1"}

\* A CSV field read under a declared column type.
Cast(v, type) ==
  IF type = "STRING" THEN [type |-> type, value |-> v]
  ELSE IF v \in Numerals THEN [type |-> type, value |-> v]
  ELSE [type |-> type, value |-> "NULL"]

\* One CSV row read under a schema (missing fields are null, extra dropped).
TypedRow(row, columns) ==
  [i \in 1..Len(columns) |->
     IF i <= Len(row) THEN Cast(row[i], columns[i].type)
     ELSE [type |-> columns[i].type, value |-> "NULL"]]

\* SELECT * over a CSV-backed table: every file under LOCATION.
SelectAll(shards, columns) ==
  [s \in DOMAIN shards |->
     [j \in 1..Len(shards[s]) |-> TypedRow(shards[s][j], columns)]]

\* ------------------------------------------------------------------- state
NoFile == [exists |-> FALSE, src |-> "none", data |-> <<>>]
NoTmp == [exists |-> FALSE, src |-> "none", data |-> NotGzip]
NoDir == [exists |-> FALSE, shards |-> [s \in 0..(NumShards - 1) |-> <<>>]]
NoTable == [exists |-> FALSE, using |-> "none", columns |-> <<>>,
            location |-> "none", shards |-> [s \in 0..(NumShards - 1) |-> <<>>]]
NoRun == [exists |-> FALSE, raw |-> [d \in Datasets |-> NoFile],
          stream |-> [d \in Datasets |-> NoDir],
          tables |-> [t \in TableNames |-> NoTable]]

VARIABLES
  run,         \* which run of the notebook this is
  pc,          \* the statement the notebook is about to run
  cur,         \* the dataset the current statement works on
  halted,      \* a statement raised: the run stopped at pc
  mounts,      \* dbutils.fs.mounts()
  mounts0,     \* the mounts that existed before the first run
  tables0,     \* the tables that existed before the first run
  remote,      \* what each data_url serves
  starts,      \* start position repartition gives each input partition
  parallelism, \* input partitions spark.read.csv makes of a file in this run
  tmp_loc,     \* /tmp/data.gz on the driver
  raw_dir,     \* whether <mount>/data/raw exists
  raw,         \* <mount>/data/raw/<dataset>.csv
  stream,      \* <mount>/data/for_streaming/<dataset>/
  tables,      \* the metastore
  prev         \* the artifacts the last completed run left

vars == <<run, pc, cur, halted, mounts, mounts0, tables0, remote, starts,
          parallelism, tmp_loc, raw_dir, raw, stream, tables, prev>>

store == <<mounts, tmp_loc, raw_dir, raw, stream, tables>>

\* ------------------------------------------------------------ initial state
other_mount_path == "/mnt/other"
other_source == "wasbs://other@storage_account.blob.core.windows.net"

MountsAt(ms, path) == {m \in ms : m.mountPoint = path}

\* Mount tables: at most one source per mount point.
MountTables ==
  {ms \in SUBSET ([mountPoint : {storage_mount_path, other_mount_path},
                   source : {wasbs_source, other_source}]) :
     \A m1, m2 \in ms : m1.mountPoint = m2.mountPoint => m1 = m2}

StartPositions == {0, NumShards - 1}

\* Tables an earlier, different notebook may have left in the metastore.
OldColumns == <<[name |-> "id", type |-> "STRING"]>>
OldTable(t) ==
  IF t \in {"kdd_temp", "kdd_unlabeled_temp"}
    THEN [exists |-> TRUE, using |-> "csv", columns |-> OldColumns,
          location |-> IF t = "kdd_temp" THEN "labeled" ELSE "unlabeled",
          shards |-> NoTable.shards]
    ELSE [exists |-> TRUE, using |-> "parquet", columns |-> OldColumns,
          location |-> "none",
          shards |-> [s \in 0..(NumShards - 1) |->
                        IF s = 0 THEN <<TypedRow(<<<<"A", "9">>>>, OldColumns)>> ELSE <<>>]]

InitRun ==
  /\ pc = "unmount"
  /\ cur = "labeled"
  /\ halted = FALSE
  /\ prev = NoRun
  /\ parallelism = 1
  /\ run = 1

\* Archives of MaxRows lines: all lines equal, or two lines taking turns.
DefaultRemote ==
  [d \in Datasets |-> GzipOf([i \in 1..MaxRows |-> RawLine(d, "0")])]

MixedRemote ==
  [d \in Datasets |->
     GzipOf([i \in 1..MaxRows |->
               RawLine(d, IF d = "labeled" /\ i % 2 = 0 THEN "1" ELSE "0")])]

NoStarts == [p \in 0..(MaxParts - 1) |-> 0]

EmptyStorage ==
  /\ tmp_loc = NoTmp
  /\ raw_dir = FALSE
  /\ raw = [d \in Datasets |-> NoFile]
  /\ stream = [d \in Datasets |-> NoDir]

\* A new workspace, whatever one of the two URLs serves.
Init ==
  /\ InitRun
  /\ starts = NoStarts
  /\ mounts0 = {}
  /\ mounts = mounts0
  /\ remote \in [Datasets -> UNION {Payloads(d) : d \in Datasets}]
  /\ \A d \in Datasets : remote[d] \in Payloads(d)
  /\ \E d \in Datasets : remote[d] = DefaultRemote[d]
  /\ EmptyStorage
  /\ tables = [t \in TableNames |-> NoTable]
  /\ tables0 = tables

\* A workspace with any mount table.
InitMounts ==
  /\ InitRun
  /\ starts = NoStarts
  /\ mounts0 \in MountTables
  /\ mounts = mounts0
  /\ remote = DefaultRemote
  /\ EmptyStorage
  /\ tables = [t \in TableNames |-> NoTable]
  /\ tables0 = tables

\* A new workspace, wherever repartition starts to deal each partition.
InitStarts ==
  /\ InitRun
  /\ starts \in [0..(MaxParts - 1) -> StartPositions]
  /\ mounts0 = {}
  /\ mounts = mounts0
  /\ remote \in {DefaultRemote, MixedRemote}
  /\ EmptyStorage
  /\ tables = [t \in TableNames |-> NoTable]
  /\ tables0 = tables

\* A workspace with any of the four tables left in the metastore.
InitTables ==
  /\ InitRun
  /\ starts = NoStarts
  /\ mounts0 = {}
  /\ mounts = mounts0
  /\ remote = DefaultRemote
  /\ EmptyStorage
  /\ tables \in [TableNames -> {NoTable} \cup {OldTable(t) : t \in TableNames}]
  /\ \A t \in TableNames : tables[t] \in {NoTable, OldTable(t)}
  /\ tables0 = tables

\* --------------------------------------------------------- Storage Mount
\* The cell without its unmount loop.
UnmountIfExisting_NoUnmount ==
  /\ pc = "unmount" /\ ~halted
  /\ pc' = "mount"
  /\ UNCHANGED <<run, cur, halted, mounts, mounts0, tables0, remote, starts,
                 parallelism, tmp_loc, raw_dir, raw, stream, tables, prev>>

\* for mp in dbutils.fs.mounts(): if mp.mountPoint == path: unmount(path)
UnmountIfExisting ==
  /\ pc = "unmount" /\ ~halted
  /\ mounts' = mounts \ MountsAt(mounts, storage_mount_path)
  /\ pc' = "mount"
  /\ UNCHANGED <<run, cur, halted, mounts0, tables0, remote, starts,
                 parallelism, tmp_loc, raw_dir, raw, stream, tables, prev>>

\* dbutils.fs.mount raises when the mount point is already mounted.
Mount ==
  /\ pc = "mount" /\ ~halted
  /\ MountsAt(mounts, storage_mount_path) = {}
  /\ mounts' = mounts \cup {[mountPoint |-> storage_mount_path, source |-> wasbs_source]}
  /\ pc' = "download"
  /\ cur' = "labeled"
  /\ UNCHANGED <<run, halted, mounts0, tables0, remote, starts, parallelism,
                 tmp_loc, raw_dir, raw, stream, tables, prev>>

\* --------------------------------------------------------- Dataset Fetch
\* The download skipped when /tmp/data.gz is already there.
Download_UnlessPresent ==
  /\ pc = "download" /\ ~halted
  /\ tmp_loc' = IF tmp_loc.exists THEN tmp_loc
                ELSE [exists |-> TRUE, src |-> data_url(cur), data |-> remote[cur]]
  /\ pc' = "makedirs"
  /\ UNCHANGED <<run, cur, halted, mounts, mounts0, tables0, remote, starts,
                 parallelism, raw_dir, raw, stream, tables, prev>>

\* urlretrieve(data_url, tmp_loc)
Download ==
  /\ pc = "download" /\ ~halted
  /\ tmp_loc' = [exists |-> TRUE, src |-> data_url(cur), data |-> remote[cur]]
  /\ pc' = "makedirs"
  /\ UNCHANGED <<run, cur, halted, mounts, mounts0, tables0, remote, starts,
                 parallelism, raw_dir, raw, stream, tables, prev>>

\* urlretrieve raises ContentTooShortError after writing what it received.
DownloadTooShort ==
  /\ pc = "download" /\ ~halted
  /\ \E k \in 0..Len(remote[cur].runs) :
       tmp_loc' = [exists |-> TRUE, src |-> data_url(cur),
                   data |-> Truncated(remote[cur], k)]
  /\ halted' = TRUE
  /\ UNCHANGED <<run, pc, cur, mounts, mounts0, tables0, remote, starts,
                 parallelism, raw_dir, raw, stream, tables, prev>>

\* if not os.path.exists(dir_path): os.makedirs(dir_path)
MakeDirs ==
  /\ pc = "makedirs" /\ ~halted
  /\ raw_dir' = TRUE
  /\ pc' = "uncompress"
  /\ UNCHANGED <<run, cur, halted, mounts, mounts0, tables0, remote, starts,
                 parallelism, tmp_loc, raw, stream, tables, prev>>

\* with gzip.open(tmp_loc) as f_in, open(out_file, 'wb') as f_out: copyfileobj
Uncompress ==
  /\ pc = "uncompress" /\ ~halted
  /\ tmp_loc.exists /\ raw_dir /\ IsGzip(tmp_loc.data)
  /\ raw' = [raw EXCEPT ![cur] = [exists |-> TRUE, src |-> tmp_loc.src,
                                  data |-> Inflate(tmp_loc.data.runs)]]
  /\ pc' = "cleanup"
  /\ UNCHANGED <<run, cur, halted, mounts, mounts0, tables0, remote, starts,
                 parallelism, tmp_loc, raw_dir, stream, tables, prev>>

\* The failed copy followed by a cleanup of both files.
UncompressFail_Cleanup ==
  /\ pc = "uncompress" /\ ~halted
  /\ tmp_loc.exists /\ raw_dir
  /\ raw' = [raw EXCEPT ![cur] = NoFile]
  /\ tmp_loc' = NoTmp
  /\ halted' = TRUE
  /\ UNCHANGED <<run, pc, cur, mounts, mounts0, tables0, remote, starts,
                 parallelism, raw_dir, stream, tables, prev>>

\* The copy raises (not a gzip file, truncated member, write error) after
\* out_file was opened for writing: out_file keeps what was copied so far.
UncompressFail ==
  /\ pc = "uncompress" /\ ~halted
  /\ tmp_loc.exists /\ raw_dir
  /\ \E k \in 0..Len(Inflate(tmp_loc.data.runs)) :
       /\ ~tmp_loc.data.magic => k = 0
       /\ raw' = [raw EXCEPT ![cur] = [exists |-> TRUE, src |-> tmp_loc.src,
                                       data |-> Prefix(Inflate(tmp_loc.data.runs), k)]]
  /\ halted' = TRUE
  /\ UNCHANGED <<run, pc, cur, mounts, mounts0, tables0, remote, starts,
                 parallelism, tmp_loc, raw_dir, stream, tables, prev>>

\* os.remove(tmp_loc), then the next call site or the next cell
Cleanup ==
  /\ pc = "cleanup" /\ ~halted
  /\ tmp_loc.exists
  /\ tmp_loc' = NoTmp
  /\ IF cur = "labeled"
       THEN pc' = "download" /\ cur' = "unlabeled"
       ELSE pc' = "read" /\ cur' = "labeled"
  /\ UNCHANGED <<run, halted, mounts, mounts0, tables0, remote, starts,
                 parallelism, raw_dir, raw, stream, tables, prev>>

\* ----------------------------------------------------------- Stream Prep
\* spark.read.csv(...) of both raw files: each must exist.
ReadRaw ==
  /\ pc = "read" /\ ~halted
  /\ \A d \in Datasets : raw[d].exists
  /\ parallelism' \in 1..MaxParts
  /\ pc' = "write"
  /\ cur' = "labeled"
  /\ UNCHANGED <<run, halted, mounts, mounts0, tables0, remote, starts,
                 tmp_loc, raw_dir, raw, stream, tables, prev>>

\* The write with mode='append': the old output stays, the new one is added.
WriteStream_Append ==
  /\ pc = "write" /\ ~halted
  /\ raw[cur].exists
  /\ stream' = [stream EXCEPT ![cur] =
                  [exists |-> TRUE,
                   shards |-> [s \in 0..(NumShards - 1) |->
                                 stream[cur].shards[s]
                                 \o StreamingFrame(cur, raw[cur].data, parallelism,
                                                   starts)[s]]]]
  /\ IF cur = "labeled"
       THEN pc' = "write" /\ cur' = "unlabeled"
       ELSE pc' = "sql_drop_temp_if_exists" /\ cur' = "labeled"
  /\ UNCHANGED <<run, halted, mounts, mounts0, tables0, remote, starts,
                 parallelism, tmp_loc, raw_dir, raw, tables, prev>>

\* df.write.csv(<mount>/data/for_streaming/<dataset>/, mode='overwrite')
WriteStream ==
  /\ pc = "write" /\ ~halted
  /\ raw[cur].exists
  /\ stream' = [stream EXCEPT ![cur] =
                  [exists |-> TRUE,
                   shards |-> StreamingFrame(cur, raw[cur].data, parallelism, starts)]]
  /\ IF cur = "labeled"
       THEN pc' = "write" /\ cur' = "unlabeled"
       ELSE pc' = "sql_drop_temp_if_exists" /\ cur' = "labeled"
  /\ UNCHANGED <<run, halted, mounts, mounts0, tables0, remote, starts,
                 parallelism, tmp_loc, raw_dir, raw, tables, prev>>

\* The write job aborts after overwrite removed the old output.
WriteStreamFail ==
  /\ pc = "write" /\ ~halted
  /\ stream' = [stream EXCEPT ![cur] = NoDir]
  /\ halted' = TRUE
  /\ UNCHANGED <<run, pc, cur, mounts, mounts0, tables0, remote, starts,
                 parallelism, tmp_loc, raw_dir, raw, tables, prev>>

\* ---------------------------------------------------- Table Registration
\* DROP TABLE IF EXISTS kdd_temp
DropTempIfExists ==
  /\ pc = "sql_drop_temp_if_exists" /\ ~halted
  /\ tables' = [tables EXCEPT ![TempTable(cur)] = NoTable]
  /\ pc' = "sql_create_temp"
  /\ UNCHANGED <<run, cur, halted, mounts, mounts0, tables0, remote, starts,
                 parallelism, tmp_loc, raw_dir, raw, stream, prev>>

\* Both staging tables declared with the column list of kdd_unlabeled_temp.
CreateTemp_SameColumns ==
  /\ pc = "sql_create_temp" /\ ~halted
  /\ ~tables[TempTable(cur)].exists
  /\ tables' = [tables EXCEPT ![TempTable(cur)] =
                  [exists |-> TRUE, using |-> "csv",
                   columns |-> kdd_unlabeled_temp_columns,
                   location |-> cur, shards |-> NoTable.shards]]
  /\ pc' = "sql_drop_if_exists"
  /\ UNCHANGED <<run, cur, halted, mounts, mounts0, tables0, remote, starts,
                 parallelism, tmp_loc, raw_dir, raw, stream, prev>>

\* CREATE TABLE kdd_temp (...) USING CSV LOCATION '...'
CreateTemp ==
  /\ pc = "sql_create_temp" /\ ~halted
  /\ ~tables[TempTable(cur)].exists
  /\ tables' = [tables EXCEPT ![TempTable(cur)] =
                  [exists |-> TRUE, using |-> "csv", columns |-> TempColumns(cur),
                   location |-> cur, shards |-> NoTable.shards]]
  /\ pc' = "sql_drop_if_exists"
  /\ UNCHANGED <<run, cur, halted, mounts, mounts0, tables0, remote, starts,
                 parallelism, tmp_loc, raw_dir, raw, stream, prev>>

\* DROP TABLE IF EXISTS kdd
DropIfExists ==
  /\ pc = "sql_drop_if_exists" /\ ~halted
  /\ tables' = [tables EXCEPT ![FinalTable(cur)] = NoTable]
  /\ pc' = "sql_create_as_select"
  /\ UNCHANGED <<run, cur, halted, mounts, mounts0, tables0, remote, starts,
                 parallelism, tmp_loc, raw_dir, raw, stream, prev>>

\* The copy limited to the rows of the first file of the staging table.
CreateAsSelect_FirstFile ==
  /\ pc = "sql_create_as_select" /\ ~halted
  /\ ~tables[FinalTable(cur)].exists
  /\ tables[TempTable(cur)].exists
  /\ stream[tables[TempTable(cur)].location].exists
  /\ tables' = [tables EXCEPT ![FinalTable(cur)] =
                  [exists |-> TRUE, using |-> "parquet",
                   columns |-> tables[TempTable(cur)].columns,
                   location |-> "none",
                   shards |-> [s \in 0..(NumShards - 1) |->
                      IF s = 0
                        THEN SelectAll(stream[tables[TempTable(cur)].location].shards,
                                       tables[TempTable(cur)].columns)[s]
                        ELSE <<>>]]]
  /\ pc' = "sql_drop_temp"
  /\ UNCHANGED <<run, cur, halted, mounts, mounts0, tables0, remote, starts,
                 parallelism, tmp_loc, raw_dir, raw, stream, prev>>

\* CREATE TABLE kdd USING org.apache.spark.sql.parquet AS SELECT * FROM kdd_temp
CreateAsSelect ==
  /\ pc = "sql_create_as_select" /\ ~halted
  /\ ~tables[FinalTable(cur)].exists
  /\ tables[TempTable(cur)].exists
  /\ stream[tables[TempTable(cur)].location].exists
  /\ tables' = [tables EXCEPT ![FinalTable(cur)] =
                  [exists |-> TRUE, using |-> "parquet",
                   columns |-> tables[TempTable(cur)].columns,
                   location |-> "none",
                   shards |-> SelectAll(stream[tables[TempTable(cur)].location].shards,
                                        tables[TempTable(cur)].columns)]]
  /\ pc' = "sql_drop_temp"
  /\ UNCHANGED <<run, cur, halted, mounts, mounts0, tables0, remote, starts,
                 parallelism, tmp_loc, raw_dir, raw, stream, prev>>

\* DROP TABLE kdd_temp
DropTemp ==
  /\ pc = "sql_drop_temp" /\ ~halted
  /\ tables[TempTable(cur)].exists
  /\ tables' = [tables EXCEPT ![TempTable(cur)] = NoTable]
  /\ pc' = "sql_refresh"
  /\ UNCHANGED <<run, cur, halted, mounts, mounts0, tables0, remote, starts,
                 parallelism, tmp_loc, raw_dir, raw, stream, prev>>

\* REFRESH TABLE kdd; SELECT * FROM kdd LIMIT 100; then the next cell
RefreshSelect ==
  /\ pc = "sql_refresh" /\ ~halted
  /\ tables[FinalTable(cur)].exists
  /\ IF cur = "labeled"
       THEN pc' = "sql_drop_temp_if_exists" /\ cur' = "unlabeled"
       ELSE pc' = "done" /\ cur' = "labeled"
  /\ UNCHANGED <<run, halted, mounts, mounts0, tables0, remote, starts,
                 parallelism, tmp_loc, raw_dir, raw, stream, tables, prev>>

\* ------------------------------------------------------------- the run
\* The statements of the notebook in the order its cells run them.
FetchSteps == <<"download", "makedirs", "uncompress", "cleanup">>
SqlSteps == <<"sql_drop_temp_if_exists", "sql_create_temp", "sql_drop_if_exists",
              "sql_create_as_select", "sql_drop_temp", "sql_refresh">>
On(steps, ds) == [i \in 1..Len(steps) |-> <<steps[i], ds>>]
Steps ==
  <<<<"unmount", "labeled">>, <<"mount", "labeled">>>>
  \o On(FetchSteps, "labeled") \o On(FetchSteps, "unlabeled")
  \o <<<<"read", "labeled">>, <<"write", "labeled">>, <<"write", "unlabeled">>>>
  \o On(SqlSteps, "labeled") \o On(SqlSteps, "unlabeled")
  \o <<<<"done", "labeled">>>>

PositionOf(p, d) == CHOOSE i \in 1..Len(Steps) : Steps[i] = <<p, d>>
Position == PositionOf(pc, cur)

\* A raising statement skipped, the run going on with the next one.
Raise_Continue ==
  /\ pc # "done" /\ ~halted
  /\ pc' = Steps[Position + 1][1]
  /\ cur' = Steps[Position + 1][2]
  /\ UNCHANGED <<run, halted, mounts, mounts0, tables0, remote, starts,
                 parallelism, tmp_loc, raw_dir, raw, stream, tables, prev>>

\* Any statement may raise before it changed anything (credentials, network,
\* storage, metastore): nothing catches it, the run stops there.
Raise ==
  /\ pc # "done" /\ ~halted
  /\ halted' = TRUE
  /\ UNCHANGED <<run, pc, cur, mounts, mounts0, tables0, remote, starts,
                 parallelism, tmp_loc, raw_dir, raw, stream, tables, prev>>

Artifacts == [exists |-> TRUE, raw |-> raw, stream |-> stream, tables |-> tables]

\* The notebook is run again from its first cell.
RunAgain ==
  /\ halted \/ pc = "done"
  /\ run < MaxRuns
  /\ run' = run + 1
  /\ prev' = IF pc = "done" THEN Artifacts ELSE prev
  /\ pc' = "unmount"
  /\ cur' = "labeled"
  /\ halted' = FALSE
  /\ parallelism' = 1
  /\ UNCHANGED <<mounts, mounts0, tables0, remote, starts, tmp_loc, raw_dir,
                 raw, stream, tables>>

Next ==
  \/ UnmountIfExisting
  \/ Mount
  \/ Download
  \/ DownloadTooShort
  \/ MakeDirs
  \/ Uncompress
  \/ UncompressFail
  \/ Cleanup
  \/ ReadRaw
  \/ WriteStream
  \/ WriteStreamFail
  \/ DropTempIfExists
  \/ CreateTemp
  \/ DropIfExists
  \/ CreateAsSelect
  \/ DropTemp
  \/ RefreshSelect
  \/ Raise
  \/ RunAgain

Spec == Init /\ [][Next]_vars
SpecMount == InitMounts /\ [][Next]_vars
SpecStarts == InitStarts /\ [][Next]_vars
SpecTables == InitTables /\ [][Next]_vars

\* =================================================================== claims
Positions(shards) ==
  UNION {{<<s, j>> : j \in 1..Len(shards[s])} : s \in DOMAIN shards}

RowAt(shards, p) == shards[p[1]][p[2]]

Occurrences(lines, line) == Cardinality({i \in 1..Len(lines) : lines[i] = line})

TargetBinding == [mountPoint |-> storage_mount_path, source |-> wasbs_source]

\* C1: once the mount stage of a run is over, the mount table is the one the
\* workspace started with, except that /mnt/blob_storage has exactly one
\* binding and it is the remote container (so every run leaves the same
\* table); and dbutils.fs.mount is only reached with that path unbound.
C1_IdempotentRemount ==
  /\ pc = "mount" => MountsAt(mounts, storage_mount_path) = {}
  /\ pc \notin {"unmount", "mount"} =>
       /\ MountsAt(mounts, storage_mount_path) = {TargetBinding}
       /\ Cardinality(MountsAt(mounts, storage_mount_path)) = 1
       /\ mounts = (mounts0 \ MountsAt(mounts0, storage_mount_path)) \cup {TargetBinding}

\* A second run remounted a path that was bound to another container.
C1_Witness ==
  /\ run = 2 /\ pc = "download" /\ ~halted
  /\ [mountPoint |-> storage_mount_path, source |-> other_source] \in mounts0
  /\ [mountPoint |-> other_mount_path, source |-> other_source] \in mounts
  /\ MountsAt(mounts, storage_mount_path) = {TargetBinding}

StageOf(p) ==
  IF p \in {"unmount", "mount"} THEN 1
  ELSE IF p \in {"download", "makedirs", "uncompress", "cleanup"} THEN 2
  ELSE IF p \in {"read", "write"} THEN 3
  ELSE IF p = "done" THEN 5
  ELSE 4

StreamedRows(d) == Cardinality(Positions(stream[d].shards))

\* What the stage before left behind when a stage starts reading.
C2_WritesBeforeReads ==
  /\ StageOf(pc) >= 2 => TargetBinding \in mounts
  /\ StageOf(pc) >= 3 =>
       /\ ~tmp_loc.exists
       /\ \A d \in Datasets :
            /\ IsGzip(remote[d])
            /\ raw[d].exists
            /\ raw[d].data = Inflate(remote[d].runs)
  /\ StageOf(pc) >= 4 =>
       \A d \in Datasets :
         stream[d].exists /\ StreamedRows(d) = Len(raw[d].data)

\* Within a run a step moves to the next statement or halts where it is;
\* a halted run changes nothing more.
C2_InOrder ==
  /\ (run' = run /\ ~halted /\ ~halted') => Position' = Position + 1
  /\ (run' = run /\ ~halted /\ halted') => Position' = Position
  /\ (run' = run /\ halted) => UNCHANGED vars
  /\ run' # run => (run' = run + 1 /\ Position' = 1 /\ ~halted' /\ store' = store)

\* C2: the stages run in order, each stage finds the writes of the stage
\* before it complete, and after a failure nothing more of the run executes
\* and nothing is retried.
C2_StagesInOrder == [](C2_WritesBeforeReads) /\ [][C2_InOrder]_vars

\* A run halted in Table Registration, after the three stages before it.
C2_Witness ==
  /\ halted /\ pc = "sql_create_as_select" /\ cur = "unlabeled"
  /\ tables["kdd"].exists /\ ~tables["kdd_unlabeled"].exists
  /\ StreamedRows("labeled") = MaxRows

CreatedTemp(d) ==
  cur = d /\ pc \in {"sql_drop_if_exists", "sql_create_as_select", "sql_drop_temp"}

CreatedFinal(d) ==
  \/ cur = d /\ pc \in {"sql_drop_temp", "sql_refresh"}
  \/ pc = "done"
  \/ d = "labeled" /\ cur = "unlabeled" /\ StageOf(pc) = 4

ColumnTypes == {"STRING", "FLOAT", "SHORT"}

\* C3 as stated: every staging table the notebook creates, and every
\* columnar table copied from it, has exactly 42 typed columns, the labeled
\* ones being the unlabeled ones plus a trailing label column.
C3_AsStated ==
  \A d \in Datasets :
    /\ CreatedTemp(d) =>
         /\ Len(tables[TempTable(d)].columns) = 42
         /\ \A i \in 1..Len(kdd_unlabeled_temp_columns) :
              tables[TempTable(d)].columns[i] = kdd_unlabeled_temp_columns[i]
    /\ CreatedFinal(d) => Len(tables[FinalTable(d)].columns) = 42

\* C3 amended: kdd_temp and kdd have 43 typed columns, kdd_unlabeled_temp
\* and kdd_unlabeled have 42, and the labeled schema is the unlabeled schema
\* followed by the label column.
C3_Schemas ==
  LET labeled == tables[TempTable("labeled")].columns
      unlabeled == tables[TempTable("unlabeled")].columns
      WellTyped(cols) == \A i \in 1..Len(cols) : cols[i].type \in ColumnTypes
  IN /\ CreatedTemp("labeled") =>
          /\ Len(labeled) = 43 /\ WellTyped(labeled)
          /\ labeled = kdd_unlabeled_temp_columns
                         \o <<[name |-> "label", type |-> "STRING"]>>
     /\ CreatedTemp("unlabeled") =>
          /\ Len(unlabeled) = 42 /\ WellTyped(unlabeled)
          /\ unlabeled = SubSeq(kdd_temp_columns, 1, 42)
     /\ CreatedFinal("labeled") =>
          tables["kdd"].columns = kdd_temp_columns /\ Len(tables["kdd"].columns) = 43
     /\ CreatedFinal("unlabeled") =>
          /\ tables["kdd_unlabeled"].columns = kdd_unlabeled_temp_columns
          /\ Len(tables["kdd_unlabeled"].columns) = 42

\* A run registered both columnar tables, with rows in the labeled one.
C3_Witness ==
  /\ pc = "done" /\ run = 1
  /\ Len(tables["kdd"].columns) = 43
  /\ Len(tables["kdd_unlabeled"].columns) = 42
  /\ Positions(tables["kdd"].shards) # {}

IsPrefix(s, t) == Len(s) <= Len(t) /\ s = SubSeq(t, 1, Len(s))

\* The step that ends a call of download_and_uncompress_gz without a fault.
C4_Returns == pc = "cleanup" /\ ~halted /\ pc' # "cleanup"

\* C4: when download_and_uncompress_gz returns, the directory of out_file
\* exists, out_file holds the lines whose gzip the data_url served, and
\* /tmp/data.gz is gone.
C4_FetchPostcondition ==
  [][C4_Returns =>
       /\ raw_dir'
       /\ ~tmp_loc'.exists
       /\ raw'[cur].exists
       /\ \E lines \in SeqsUpTo(RawLines(cur), MaxRows) :
            remote[cur] = GzipOf(lines) /\ raw'[cur].data = lines]_vars

\* Both calls returned in a first run, the labeled archive holding two
\* different lines.
C4_Witness ==
  /\ pc = "read" /\ ~halted /\ run = 1
  /\ raw_dir /\ ~tmp_loc.exists
  /\ Len(raw["labeled"].data) = 2 /\ raw["labeled"].data[1] # raw["labeled"].data[2]
  /\ Len(raw["unlabeled"].data) = 2

C5_AfterDownload == {"makedirs", "uncompress", "cleanup"}

\* C5: a fault in download_and_uncompress_gz after the download stops the
\* run at that statement, leaves /tmp/data.gz as downloaded, leaves out_file
\* as it was or holding the part already copied, and the halted run neither
\* cleans up nor tries again.
C5_NoCleanupNoRetry ==
  [][/\ (pc \in C5_AfterDownload /\ ~halted /\ halted') =>
          /\ pc' = pc /\ cur' = cur /\ run' = run
          /\ tmp_loc.exists /\ tmp_loc' = tmp_loc
          /\ \A d \in Datasets \ {cur} : raw'[d] = raw[d]
          /\ \/ raw'[cur] = raw[cur]
             \/ /\ raw'[cur].exists
                /\ IsPrefix(raw'[cur].data, Inflate(tmp_loc.data.runs))
     /\ (pc \in C5_AfterDownload /\ halted /\ run' = run) => UNCHANGED vars
     /\ (pc \in C5_AfterDownload /\ halted /\ run' # run) =>
          (tmp_loc' = tmp_loc /\ raw' = raw)]_vars

\* The copy of the labeled archive failed half way: the archive is still in
\* /tmp/data.gz and out_file holds the first of its two lines.
C5_Witness ==
  /\ halted /\ pc = "uncompress" /\ cur = "labeled"
  /\ tmp_loc.exists /\ IsGzip(tmp_loc.data)
  /\ Len(Inflate(tmp_loc.data.runs)) = 2
  /\ raw["labeled"].exists /\ Len(raw["labeled"].data) = 1

Digits == {DigitChar[i] : i \in 1..Len(DigitChar)}

IdsOf(d) == {RowAt(stream[d].shards, p)[1] : p \in Positions(stream[d].shards)}

\* C6: every streamed row of a dataset carries its prefix followed by a
\* decimal integer, no two rows of a dataset share an id, and no id of one
\* dataset is an id of the other.
C6_Identifiers ==
  /\ \A d \in Datasets : \A id \in IdsOf(d) :
       /\ Len(id) >= 2
       /\ id[1] = IdPrefix(d)
       /\ \A k \in 2..Len(id) : id[k] \in Digits
       /\ Len(id) > 2 => id[2] # "0"
  /\ \A d \in Datasets : Cardinality(IdsOf(d)) = StreamedRows(d)
  /\ IdsOf("labeled") \cap IdsOf("unlabeled") = {}

\* Two equal lines read in two partitions got different ids.
C6_Witness ==
  /\ stream["labeled"].exists /\ stream["unlabeled"].exists
  /\ raw["labeled"].exists /\ Len(raw["labeled"].data) = 2
  /\ raw["labeled"].data[1] = raw["labeled"].data[2]
  /\ Cardinality({Len(id) : id \in IdsOf("labeled")}) = 2
  /\ StreamedRows("unlabeled") = 2

\* The step that writes one dataset for streaming.
C7_Written == pc = "write" /\ ~halted /\ ~halted' /\ Position' = Position + 1

\* C7: the rows written for a dataset are as many as the lines of its raw
\* CSV, and they are those lines, each with an id put in front.
C7_RowsPreserved ==
  [][C7_Written =>
       LET out == stream'[cur].shards
           lines == raw[cur].data
       IN /\ stream'[cur].exists
          /\ DOMAIN out = 0..(NumShards - 1)
          /\ Cardinality(Positions(out)) = Len(lines)
          /\ \A p \in Positions(out) :
               \E i \in 1..Len(lines) : Tail(RowAt(out, p)) = lines[i]
          /\ \A i \in 1..Len(lines) :
               Cardinality({p \in Positions(out) : Tail(RowAt(out, p)) = lines[i]})
                 = Occurrences(lines, lines[i])]_vars

\* Two different lines were written to two shards.
C7_Witness ==
  /\ pc = "write" /\ cur = "unlabeled" /\ ~halted
  /\ Len(raw["labeled"].data) = 2 /\ raw["labeled"].data[1] # raw["labeled"].data[2]
  /\ Cardinality({p[1] : p \in Positions(stream["labeled"].shards)}) = 2

\* The step that runs the final DROP TABLE of a staging table.
C8_DropsStaging == pc = "sql_drop_temp" /\ ~halted /\ ~halted' /\ pc' = "sql_refresh"

CopyOf(d) == SelectAll(stream[d].shards, TempColumns(d))

\* C8: whatever tables existed, when Table Registration has succeeded each
\* columnar table exists and holds exactly the rows of its staging table,
\* the staging table is gone, and the staging table was dropped only once
\* the copy was in the columnar table.
C8_DropAndRecreate ==
  /\ [](pc = "done" =>
          \A d \in Datasets :
            /\ tables[FinalTable(d)].exists
            /\ tables[FinalTable(d)].using = "parquet"
            /\ tables[FinalTable(d)].shards = CopyOf(d)
            /\ ~tables[TempTable(d)].exists)
  /\ [][C8_DropsStaging =>
          /\ tables[TempTable(cur)].exists
          /\ tables[TempTable(cur)].location = cur
          /\ tables[FinalTable(cur)].exists
          /\ tables[FinalTable(cur)].shards = CopyOf(cur)
          /\ tables'[FinalTable(cur)] = tables[FinalTable(cur)]
          /\ ~tables'[TempTable(cur)].exists]_vars

\* Registration succeeded over four tables of an earlier notebook; the rows of
\* kdd are typed copies of the streamed
\* rows and the row an earlier kdd held is not among them.
C8_Witness ==
  /\ pc = "done" /\ run = 1
  /\ \A t \in TableNames : tables0[t] = OldTable(t)
  /\ Cardinality(Positions(tables["kdd"].shards)) = MaxRows
  /\ Cardinality(Positions(tables["kdd_unlabeled"].shards)) = MaxRows
  /\ \A p \in Positions(tables["kdd"].shards) :
       /\ RowAt(tables["kdd"].shards, p)[2] = [type |-> "FLOAT", value |-> "0"]
       /\ RowAt(tables["kdd"].shards, p) # RowAt(OldTable("kdd").shards, <<0, 1>>)

RowsWithoutId(shards) ==
  [line \in {Tail(RowAt(shards, p)) : p \in Positions(shards)} |->
     Cardinality({p \in Positions(shards) : Tail(RowAt(shards, p)) = line})]

\* C9 as stated: a completed run leaves artifacts that only its inputs
\* determine, so a completed run after a completed run on the same inputs
\* leaves the artifacts the first one left.
C9_AsStated ==
  (pc = "done" /\ prev.exists) =>
    /\ raw = prev.raw
    /\ stream = prev.stream
    /\ tables = prev.tables

\* C9 amended: a completed run leaves the raw files its URLs served, the
\* streaming output of those files under some partitioning of that run's
\* read, and tables copied from that output, with nothing of an earlier run
\* in them; a completed run after a completed run leaves the same raw files,
\* and the same streamed and registered rows up to the id column and the
\* shard a row is in.
C9_Overwritten ==
  pc = "done" =>
    /\ ~tmp_loc.exists
    /\ \A d \in Datasets :
         /\ raw[d] = [exists |-> TRUE, src |-> data_url(d),
                      data |-> Inflate(remote[d].runs)]
         /\ stream[d].exists
         /\ stream[d].shards = StreamingFrame(d, raw[d].data, parallelism, starts)
         /\ tables[FinalTable(d)] =
              [exists |-> TRUE, using |-> "parquet", columns |-> TempColumns(d),
               location |-> "none", shards |-> CopyOf(d)]
         /\ tables[TempTable(d)] = NoTable
         /\ prev.exists =>
              /\ raw[d] = prev.raw[d]
              /\ RowsWithoutId(stream[d].shards) = RowsWithoutId(prev.stream[d].shards)
              /\ RowsWithoutId(tables[FinalTable(d)].shards)
                   = RowsWithoutId(prev.tables[FinalTable(d)].shards)
              /\ tables[FinalTable(d)].columns = prev.tables[FinalTable(d)].columns
              /\ tables[TempTable(d)] = prev.tables[TempTable(d)]

\* A second completed run whose read was partitioned differently from the
\* first one's.
C9_Witness ==
  /\ pc = "done" /\ prev.exists /\ run = 2
  /\ stream["labeled"] # prev.stream["labeled"]
  /\ Len(raw["labeled"].data) = 2

\* C10: a destination file only ever holds content of the archive of its
\* own call's data_url, never of the other call's.
C10_OwnArchiveOnly ==
  \A d \in Datasets :
    raw[d].exists =>
      /\ raw[d].src = data_url(d)
      /\ IsPrefix(raw[d].data, Inflate(remote[d].runs))

\* In a second run the labeled call has uncompressed its own archive although
\* the first run stopped in the unlabeled call, which left /tmp/data.gz behind
\* and half of the unlabeled file written.
C10_Witness ==
  /\ run = 2 /\ pc = "cleanup" /\ cur = "labeled" /\ ~halted
  /\ raw["labeled"].src = data_url("labeled")
  /\ Len(raw["labeled"].data) = 2
  /\ raw["unlabeled"].exists /\ Len(raw["unlabeled"].data) = 1
  /\ Len(Inflate(remote["unlabeled"].runs)) = 2
  /\ tmp_loc.src = data_url("labeled")
====
